---- MODULE Spec2Model ----
(***************************************************************************)
(* A model of app.py, the Instagram analytics dashboard: the secrets       *)
(* resolver (SecretsManager), the post retrieval service                   *)
(* (InstagramAnalytics.scrape_instagram_posts / _get_demo_data), the       *)
(* content classifier (analyze_with_gemini) and the Streamlit session      *)
(* (main, st.session_state).                                               *)
(***************************************************************************)
EXTENDS Integers, Sequences, FiniteSets, TLC

VARIABLES
    st_secrets,     \* st.secrets, the hosted secret store: [ok, data]
    environ,        \* os.environ restricted to the five variables
    secrets_file,   \* .streamlit/secrets.toml: [status, data]
    env_file,       \* .env: [status, data]
    config_file,    \* config.yaml: [status, data]
    api_keys,       \* SecretsManager.api_keys
    edits,          \* number of changes made to the sources, saves included
    save_result,    \* how the last save_secrets_to_file call ended
    last_op,        \* the last operation of the resolver that ran
    scraping_available, \* InstagramAnalytics.scraping_available
    fetch_args,     \* the arguments of the last scrape_instagram_posts call
    fetch_out,      \* what that call did and returned
    ai_available,   \* InstagramAnalytics.ai_available
    classify_out,   \* what the last analyze_with_gemini call did and returned
    bookmarks,      \* st.session_state.bookmarks
    posts_data,     \* st.session_state.posts_data
    show_api_setup, \* st.session_state.show_api_setup
    show_bookmarks, \* st.session_state.show_bookmarks
    widgets,        \* the values of the sidebar filters
    run_end,        \* how the last run of the script ended
    rendered,       \* the buttons the last run of the script put on the page
    helper_in,      \* the argument of the last call of a helper method
    helper_out      \* what that call returned

secretVars == <<st_secrets, environ, secrets_file, env_file, config_file,
                api_keys, edits, save_result, last_op>>

fetchVars == <<scraping_available, fetch_args, fetch_out>>

clsVars == <<ai_available, classify_out>>

sessVars == <<bookmarks, posts_data, show_api_setup, show_bookmarks, widgets,
              run_end, rendered>>

helperVars == <<helper_in, helper_out>>

vars == <<secretVars, fetchVars, clsVars, sessVars, helperVars>>

(***************************************************************************)
(* Bounds of the model.                                                    *)
(***************************************************************************)
MaxEdits == 2
MaxBookmarks == 1
MaxItems == 2
MaxLimit == 32
TicksPerDay == 2

(***************************************************************************)
(* Secrets resolver: values and sources.                                   *)
(***************************************************************************)
Keys == {"apify_token", "gemini_api_key", "instagram_session_id",
         "proxy_url", "openai_api_key"}

\* "" is what st.secrets.get(K, ""), os.getenv(K, "") and api_keys.get(k, "")
\* give for a key that is not there: an absent and an empty value are both
\* falsy in every test load_secrets makes.
QuoteVal == "a\"b"
Vals == {"", "X", "Y"}
TextVals == Vals \cup {QuoteVal}

Empty == [k \in Keys |-> ""]

Sources == <<"st_secrets", "environ", "secrets_file", "config_file">>

FileStatus == {"missing", "corrupt", "ok"}

NoFile == [status |-> "missing", data |-> Empty]
BadFile == [status |-> "corrupt", data |-> Empty]
File(d) == [status |-> "ok", data |-> d]

\* Priority 1: one dict literal built from five st.secrets.get calls and
\* handed to api_keys.update; if the store cannot be read the literal is
\* never built and api_keys is left as it was.
LoadStreamlit(ak, st) ==
    IF st.ok THEN [k \in Keys |-> st.data[k]] ELSE ak

\* A plausible slip: the environment overrides what is already resolved.
LoadEnvMutant(ak, env) ==
    [k \in Keys |-> IF env[k] # "" THEN env[k] ELSE ak[k]]

\* Priority 2: an environment variable fills a key that is still empty.
LoadEnv(ak, env) ==
    [k \in Keys |-> IF env[k] # "" /\ ak[k] = "" THEN env[k] ELSE ak[k]]

\* Priority 3: the local secrets file, when it exists and parses.
LoadSecretsFile(ak, sf) ==
    IF sf.status = "ok"
    THEN [k \in Keys |-> IF ak[k] = "" THEN sf.data[k] ELSE ak[k]]
    ELSE ak

\* Priority 4: the api_keys section of the config file.
LoadConfig(ak, cf) ==
    IF cf.status = "ok"
    THEN [k \in Keys |-> IF cf.data[k] # "" /\ ak[k] = "" THEN cf.data[k] ELSE ak[k]]
    ELSE ak

load_secrets(ak, st, env, sf, cf) ==
    LoadConfig(LoadSecretsFile(LoadEnv(LoadStreamlit(ak, st), env), sf), cf)

get_secret(k) == api_keys[k]

required_keys == {"apify_token", "gemini_api_key"}

has_required_keys(ak) == \A k \in required_keys : ak[k] # ""

get_missing_keys(ak) == {k \in required_keys : ak[k] = ""}

(***************************************************************************)
(* save_secrets_to_file.  io is what the file system does with the call.   *)
(***************************************************************************)
FileTypes == {"toml", "env", "yaml"}
IoOutcomes == {"ok", "mkdir_error", "open_error", "write_error"}

\* Only the toml branch calls mkdir.
IoFor(file_type) ==
    IF file_type = "toml" THEN IoOutcomes ELSE IoOutcomes \ {"mkdir_error"}

\* One line f'{key.upper()} = "{value}"' per non-empty value (a key left out
\* reads back as ""): a value holding a double quote leaves a line tomli
\* cannot parse, and then the whole file gives no values.
TomlText(d) ==
    IF \E k \in Keys : d[k] = QuoteVal THEN BadFile ELSE File(d)

\* One line f'{key.upper()}={value}' per non-empty value.
EnvText(d) == File(d)

\* yaml.dump escapes what it has to; every key is written, empty ones too.
YamlText(d) == File(d)

\* The file a call leaves behind: untouched when mkdir or open fails, cut
\* short when the write fails after open(..., 'w') has truncated it.
Written(old, new, io) ==
    CASE io = "ok" -> new
      [] io = "write_error" -> BadFile
      [] OTHER -> old

SaveRaises(io) == io # "ok"

\* What the user can have in the five text inputs: each is prefilled with
\* get_secret(key), and the user retypes one of them.
WizardDicts ==
    {[api_keys EXCEPT ![k] = v] : k \in Keys, v \in TextVals}

(***************************************************************************)
(* Operations of the resolver.                                             *)
(***************************************************************************)
\* SecretsManager.__init__: api_keys = {} and one load_secrets.
SecretsManagerInit ==
    /\ api_keys' = load_secrets(Empty, st_secrets, environ, secrets_file, config_file)
    /\ last_op' = "init"
    /\ save_result' = "none"
    /\ UNCHANGED <<st_secrets, environ, secrets_file, env_file, config_file, edits>>
    /\ UNCHANGED <<fetchVars, clsVars, sessVars, helperVars>>

\* The "Reload Keys" button: load_secrets on the resolver that exists.
ReloadKeys ==
    /\ last_op # "none"
    /\ api_keys' = load_secrets(api_keys, st_secrets, environ, secrets_file, config_file)
    /\ last_op' = "reload"
    /\ save_result' = "none"
    /\ UNCHANGED <<st_secrets, environ, secrets_file, env_file, config_file, edits>>
    /\ UNCHANGED <<fetchVars, clsVars, sessVars, helperVars>>

\* The "Save Keys" button: save_secrets_to_file, then load_secrets.  An
\* exception of the save leaves the handler before load_secrets runs.
SaveKeys ==
    /\ last_op # "none"
    /\ edits < MaxEdits
    /\ edits' = edits + 1
    /\ \E d \in WizardDicts, ft \in FileTypes :
         \E io \in IoFor(ft) :
            /\ secrets_file' = IF ft = "toml"
                               THEN Written(secrets_file, TomlText(d), io)
                               ELSE secrets_file
            /\ env_file' = IF ft = "env"
                           THEN Written(env_file, EnvText(d), io)
                           ELSE env_file
            /\ config_file' = IF ft = "yaml"
                              THEN Written(config_file, YamlText(d), io)
                              ELSE config_file
            /\ save_result' = IF SaveRaises(io) THEN "raised" ELSE "ok"
            /\ api_keys' = IF SaveRaises(io) THEN api_keys
                           ELSE load_secrets(api_keys, st_secrets, environ,
                                             secrets_file', config_file')
    /\ last_op' = "save"
    /\ UNCHANGED <<st_secrets, environ>>
    /\ UNCHANGED <<fetchVars, clsVars, sessVars, helperVars>>

\* load_dotenv() at the top of the script, run again on every rerun: a
\* variable of .env is set in the environment unless it is set already.
load_dotenv(env, ef) ==
    IF ef.status = "ok"
    THEN [k \in Keys |-> IF env[k] = "" THEN ef.data[k] ELSE env[k]]
    ELSE env

ScriptStart ==
    /\ environ' = load_dotenv(environ, env_file)
    /\ environ' # environ
    /\ last_op' = "dotenv"
    /\ UNCHANGED <<st_secrets, secrets_file, env_file, config_file, api_keys,
                   edits, save_result>>
    /\ UNCHANGED <<fetchVars, clsVars, sessVars, helperVars>>

(***************************************************************************)
(* The sources change from outside the program: a deployment sets a        *)
(* secret, the operator exports a variable or edits, breaks or deletes a   *)
(* file.                                                                   *)
(***************************************************************************)
SetFile(f, k, v) == File([f.data EXCEPT ![k] = v])

ExternalWrite ==
    /\ edits < MaxEdits
    /\ edits' = edits + 1
    /\ last_op' = "edit"
    /\ \E k \in Keys, v \in Vals :
         \/ /\ st_secrets' = [ok |-> TRUE, data |-> [st_secrets.data EXCEPT ![k] = v]]
            /\ UNCHANGED <<environ, secrets_file, config_file>>
         \/ /\ environ' = [environ EXCEPT ![k] = v]
            /\ UNCHANGED <<st_secrets, secrets_file, config_file>>
         \/ /\ secrets_file' = SetFile(secrets_file, k, v)
            /\ UNCHANGED <<st_secrets, environ, config_file>>
         \/ /\ config_file' = SetFile(config_file, k, v)
            /\ UNCHANGED <<st_secrets, environ, secrets_file>>
    /\ UNCHANGED <<env_file, api_keys, save_result>>
    /\ UNCHANGED <<fetchVars, clsVars, sessVars, helperVars>>

ExternalBreak ==
    /\ edits < MaxEdits
    /\ edits' = edits + 1
    /\ last_op' = "edit"
    /\ \/ /\ st_secrets' = [ok |-> FALSE, data |-> Empty]
          /\ UNCHANGED <<secrets_file, config_file>>
       \/ /\ \E f \in {NoFile, BadFile} : secrets_file' = f
          /\ UNCHANGED <<st_secrets, config_file>>
       \/ /\ \E f \in {NoFile, BadFile} : config_file' = f
          /\ UNCHANGED <<st_secrets, secrets_file>>
    /\ UNCHANGED <<environ, env_file, api_keys, save_result>>
    /\ UNCHANGED <<fetchVars, clsVars, sessVars, helperVars>>

NoArgs == [hashtags |-> <<>>, time_filter |-> "", post_type |-> "", limit |-> 0]

\* path: the return statement taken; failure: the step of the remote
\* retrieval that raised; raw: the number of items the result set held;
\* mock: the local mock_posts of _get_demo_data; now, tickAt: the clock.
NoOut == [path |-> "none", failure |-> "none", raw |-> 0, posts |-> <<>>, mock |-> <<>>,
          actor_input |-> <<>>, now |-> 0, tickAt |-> 0]

NoClassify == [path |-> "none", failure |-> "none", prompt |-> <<>>, result |-> <<>>]

ClsIdle ==
    /\ ai_available = FALSE
    /\ classify_out = NoClassify

\* No helper method has been called.
HelperIdle ==
    /\ helper_in = <<>>
    /\ helper_out = <<>>

\* The values the sidebar filters have when the session starts, lines 662-691.
DefaultWidgets ==
    [hashtags |-> <<"#ui", "#design", "#tech">>, time_filter |-> "Month",
     post_type |-> "All", sort_by |-> "Likes", post_limit |-> 50]

\* Lines 446-450, and what a session that has not run the script yet holds.
SessIdle ==
    /\ bookmarks = <<>>
    /\ posts_data = <<>>
    /\ show_api_setup = FALSE
    /\ show_bookmarks = FALSE
    /\ widgets = DefaultWidgets
    /\ run_end = "init"
    /\ rendered = {}

InitSecrets ==
    /\ st_secrets = [ok |-> FALSE, data |-> Empty]
    /\ environ = Empty
    /\ secrets_file = NoFile
    /\ env_file = NoFile
    /\ config_file = NoFile
    /\ api_keys = Empty
    /\ edits = 0
    /\ save_result = "none"
    /\ last_op = "none"
    /\ scraping_available = FALSE
    /\ fetch_args = NoArgs
    /\ fetch_out = NoOut
    /\ ClsIdle
    /\ SessIdle
    /\ HelperIdle

NextSecrets ==
    \/ SecretsManagerInit
    \/ ReloadKeys
    \/ SaveKeys
    \/ ScriptStart
    \/ ExternalWrite
    \/ ExternalBreak

SpecSecrets == InitSecrets /\ [][NextSecrets]_vars

(***************************************************************************)
(* Resolution on a fresh resolver, over every combination of what the four *)
(* sources hold for one key (a) and for the other keys (b), each source    *)
(* readable or not.                                                        *)
(***************************************************************************)
InitResolve ==
    /\ \E k0 \in Keys, a \in [1..4 -> Vals], b \in [1..4 -> Vals] :
         LET d(i) == [k \in Keys |-> IF k = k0 THEN a[i] ELSE b[i]]
         IN  /\ \E ok \in BOOLEAN :
                   st_secrets = [ok |-> ok, data |-> IF ok THEN d(1) ELSE Empty]
             /\ environ = d(2)
             /\ secrets_file \in {NoFile, BadFile, File(d(3))}
             /\ config_file \in {NoFile, BadFile, File(d(4))}
    /\ env_file = NoFile
    /\ api_keys = Empty
    /\ edits = 0
    /\ save_result = "none"
    /\ last_op = "none"
    /\ scraping_available = FALSE
    /\ fetch_args = NoArgs
    /\ fetch_out = NoOut
    /\ ClsIdle
    /\ SessIdle
    /\ HelperIdle

NextResolve == last_op = "none" /\ SecretsManagerInit

SpecResolve == InitResolve /\ [][NextResolve]_vars

\* What each source yields for a key, a source that cannot be read yielding
\* nothing, in the order of priority.
Yields(k) ==
    << IF st_secrets.ok THEN st_secrets.data[k] ELSE "",
       environ[k],
       IF secrets_file.status = "ok" THEN secrets_file.data[k] ELSE "",
       IF config_file.status = "ok" THEN config_file.data[k] ELSE "" >>

FirstNonEmpty(q) ==
    IF \A i \in DOMAIN q : q[i] = "" THEN ""
    ELSE q[CHOOSE i \in DOMAIN q : q[i] # "" /\ \A j \in 1..(i - 1) : q[j] = ""]

\* C1: on a fresh resolver every key resolves to the value of the first
\* source, in the order hosted store > environment > secrets file > config
\* file, that yields a non-empty value for it (an unreadable source yields
\* none), and to nothing when no source does.
C1_FirstSourceWins ==
    last_op = "init" => \A k \in Keys : get_secret(k) = FirstNonEmpty(Yields(k))

\* The environment holds X and the config file Y for apify_token, the two
\* higher or intermediate sources hold nothing for it: resolved to X.
C1_Witness ==
    /\ last_op = "init"
    /\ Yields("apify_token") = <<"", "X", "", "Y">>
    /\ get_secret("apify_token") = "X"

(***************************************************************************)
(* Post retrieval service.                                                 *)
(*                                                                         *)
(* A point in time is a number of clock ticks, TicksPerDay of them to a    *)
(* day; a datetime is naive (datetime.now()) or aware (parsed from a       *)
(* string that carries an offset), and Python refuses to order one against *)
(* the other.                                                              *)
(***************************************************************************)
Day == TicksPerDay

Naive(t) == [t |-> t, tz |-> "naive"]
Aware(t) == [t |-> t, tz |-> "utc"]

\* The dictionary of lines 476-482 and time_filters.get(time_filter, 30).
DaysBackLive(time_filter) ==
    CASE time_filter = "Today" -> 1
      [] time_filter = "48 Hours" -> 2
      [] time_filter = "4 Days" -> 4
      [] time_filter = "Week" -> 7
      [] time_filter = "Month" -> 30
      [] OTHER -> 30

\* The dictionary of lines 545-551 and time_filters.get(time_filter, 30).
DaysBackDemo(time_filter) ==
    CASE time_filter = "Today" -> 1
      [] time_filter = "48 Hours" -> 2
      [] time_filter = "4 Days" -> 4
      [] time_filter = "Week" -> 7
      [] time_filter = "Month" -> 30
      [] OTHER -> 30

Take(q, n) == SubSeq(q, 1, IF n < Len(q) THEN n ELSE Len(q))

\* f"post_{i}" and the other formatted strings.
Fmt(prefix, i) == prefix \o ToString(i)

DemoKinds == <<"posts", "carousels", "reels">>

\* The clock read while record i is built: the clock ticks once during the
\* call, just before record tickAt is built (tickAt = limit: after the last
\* record and before the cutoff is computed).
NowAt(i, now, tickAt) == IF i < tickAt THEN now ELSE now + 1

\* A plausible slip: the timestamps step back a day per record without
\* wrapping at 30 days.
mock_postsMutant(hashtags, post_type, limit, now, tickAt) ==
    [n \in 1..limit |->
        LET i == n - 1
        IN  [id |-> Fmt("post_", i),
             creator |-> Fmt("designer_", i % 10),
             thumbnail |-> Fmt("https://picsum.photos/300/200?random=", i),
             likes |-> 1500 + (i * 100),
             comments |-> 45 + (i * 5),
             shares |-> 20 + (i * 2),
             views |-> 5000 + (i * 200),
             caption |-> <<"Amazing ",
                           IF hashtags # <<>> THEN hashtags[1] ELSE "design",
                           " inspiration! Check out this innovative approach to modern design solutions.">>,
             post_type |-> IF post_type # "all" THEN post_type ELSE DemoKinds[(i % 3) + 1],
             url |-> Fmt("https://instagram.com/p/mock_", i),
             timestamp |-> Naive(NowAt(i, now, tickAt) - (i * Day)),
             hashtags |-> IF hashtags # <<>> THEN Take(hashtags, 3) ELSE <<"#design">>]]

\* The list comprehension of lines 526-542, i = 0 .. limit-1.
mock_posts(hashtags, post_type, limit, now, tickAt) ==
    [n \in 1..limit |->
        LET i == n - 1
        IN  [id |-> Fmt("post_", i),
             creator |-> Fmt("designer_", i % 10),
             thumbnail |-> Fmt("https://picsum.photos/300/200?random=", i),
             likes |-> 1500 + (i * 100),
             comments |-> 45 + (i * 5),
             shares |-> 20 + (i * 2),
             views |-> 5000 + (i * 200),
             caption |-> <<"Amazing ",
                           IF hashtags # <<>> THEN hashtags[1] ELSE "design",
                           " inspiration! Check out this innovative approach to modern design solutions.">>,
             post_type |-> IF post_type # "all" THEN post_type ELSE DemoKinds[(i % 3) + 1],
             url |-> Fmt("https://instagram.com/p/mock_", i),
             timestamp |-> Naive(NowAt(i, now, tickAt) - ((i % 30) * Day)),
             hashtags |-> IF hashtags # <<>> THEN Take(hashtags, 3) ELSE <<"#design">>]]

\* cutoff_date of line 554, read from the clock after the list is built.
DemoCutoff(time_filter, now) == Naive((now + 1) - (DaysBackDemo(time_filter) * Day))

\* The filter of lines 556-559: both datetimes are naive.
FilterByTime(q, cutoff) ==
    SelectSeq(q, LAMBDA post : post.timestamp.t >= cutoff.t)

_get_demo_data(hashtags, time_filter, post_type, limit, now, tickAt) ==
    FilterByTime(mock_posts(hashtags, post_type, limit, now, tickAt),
                 DemoCutoff(time_filter, now))

(***************************************************************************)
(* A raw item of the provider's result set.  A field is <<>> when the item *)
(* does not carry it and <<v>> when it does.                               *)
(***************************************************************************)
Get(field, default) == IF field = <<>> THEN default ELSE field[1]

\* item.get(f) is truthy, for a field that holds a string and for one that
\* holds a list.
TruthyStr(field) == field # <<>> /\ field[1] # ""
TruthyList(field) == field # <<>> /\ field[1] # <<>>

\* A plausible slip: the sidecar media are looked at first.
_determine_post_typeMutant(item) ==
    IF TruthyList(item.sidecarMedias) THEN "carousels"
    ELSE IF TruthyStr(item.videoUrl) THEN "reels"
    ELSE "posts"

_determine_post_type(item) ==
    IF TruthyStr(item.videoUrl) THEN "reels"
    ELSE IF TruthyList(item.sidecarMedias) THEN "carousels"
    ELSE "posts"

\* The characters \w matches, among those the captions of the model use.
IsWord(c) == c \in {"a", "b", "1", "_"}

WordEnd(c, q) ==
    CHOOSE e \in q..Len(c) :
        /\ \A j \in q..e : IsWord(c[j])
        /\ e = Len(c) \/ ~IsWord(c[e + 1])

RECURSIVE FindAll(_, _)
\* re.findall(r'#\w+', caption) from position p on: leftmost matches, each as
\* long as it can be, none overlapping another.
FindAll(c, p) ==
    IF p > Len(c) THEN <<>>
    ELSE IF c[p] = "#" /\ p < Len(c) /\ IsWord(c[p + 1])
         THEN LET e == WordEnd(c, p + 1)
              IN  <<SubSeq(c, p, e)>> \o FindAll(c, e + 1)
         ELSE FindAll(c, p + 1)

\* A plausible slip: every match is returned.
_extract_hashtagsMutant(caption) == FindAll(caption, 1)

_extract_hashtags(caption) == Take(FindAll(caption, 1), 5)

\* A provider timestamp is a string: the empty one, ISO with a Z or an
\* offset, ISO without one, or something datetime.fromisoformat refuses.
TruthyTs(field) == field # <<>> /\ field[1].form # "empty"

ParseRaises(ts) == ts.form = "malformed"

fromisoformat(ts) == IF ts.form = "iso_z" THEN Aware(ts.t) ELSE Naive(ts.t)

\* Line 509; the clock is read when the item has no timestamp.
ItemTimestamp(item, now) ==
    IF TruthyTs(item.timestamp) THEN fromisoformat(item.timestamp[1]) ELSE Naive(now)

NormalizeRaises(item) == TruthyTs(item.timestamp) /\ ParseRaises(item.timestamp[1])

\* The dictionary of lines 498-511.
Normalize(item, now) ==
    [id |-> Get(item.id, ""),
     creator |-> Get(item.ownerUsername, "unknown"),
     thumbnail |-> Get(item.displayUrl, ""),
     likes |-> Get(item.likesCount, 0),
     comments |-> Get(item.commentsCount, 0),
     shares |-> Get(item.videoViewCount, 0),
     views |-> Get(item.videoViewCount, Get(item.likesCount, 0) * 10),
     caption |-> Get(item.caption, <<>>),
     post_type |-> _determine_post_type(item),
     url |-> "https://instagram.com/p/" \o Get(item.shortCode, ""),
     timestamp |-> ItemTimestamp(item, now),
     hashtags |-> _extract_hashtags(Get(item.caption, <<>>))]

\* Lines 468-490.
ActorInput(hashtags, time_filter, limit, now, proxy) ==
    [hashtags |-> hashtags,
     resultsLimit |-> limit,
     searchType |-> "hashtag",
     addParentData |-> FALSE,
     dateFrom |-> Naive(now - (DaysBackLive(time_filter) * Day)),
     proxy |-> IF proxy # "" THEN <<proxy>> ELSE <<>>]

\* Lines 514-516; every kind _determine_post_type gives is lower case, so
\* .lower() changes nothing.
FilterByType(posts, post_type) ==
    IF post_type # "all"
    THEN SelectSeq(posts, LAMBDA post : post.post_type = post_type)
    ELSE posts

\* A plausible slip: the list is returned whole.
TruncateMutant(posts, limit) == posts

\* Line 518.
Truncate(posts, limit) == Take(posts, limit)

(***************************************************************************)
(* scrape_instagram_posts.  remote is what the provider does with the job: *)
(* the submission raises, the iteration of the result set raises, or the   *)
(* result set holds remote.items.  The remote call takes time: what runs   *)
(* after it reads the clock one tick later.                                *)
(***************************************************************************)
Demo(path, failure, args, now, tickAt) ==
    [path |-> path,
     failure |-> failure,
     raw |-> 0,
     posts |-> _get_demo_data(args.hashtags, args.time_filter, args.post_type,
                              args.limit, now, tickAt),
     mock |-> mock_posts(args.hashtags, args.post_type, args.limit, now, tickAt),
     actor_input |-> <<>>,
     now |-> now,
     tickAt |-> tickAt]

\* A plausible slip: the except branch reports the error and returns nothing.
OnScrapeFailureMutant(failure, args, now, tickAt) ==
    [Demo("demo_after_failure", failure, args, now, tickAt) EXCEPT !.posts = <<>>]

\* The except branch, lines 520-522.
OnScrapeFailure(failure, args, now, tickAt) ==
    Demo("demo_after_failure", failure, args, now, tickAt)

\* Lines 496-518.
Live(args, items, now, proxy) ==
    [path |-> "live",
     failure |-> "none",
     raw |-> Len(items),
     posts |-> Truncate(FilterByType([n \in DOMAIN items |-> Normalize(items[n], now + 1)],
                                     args.post_type),
                        args.limit),
     mock |-> <<>>,
     actor_input |-> <<ActorInput(args.hashtags, args.time_filter, args.limit, now, proxy)>>,
     now |-> now,
     tickAt |-> 0]

\* The step of the try block that raises, if one does.
FailureOf(remote) ==
    IF remote.stage # "ok" THEN remote.stage
    ELSE IF \E n \in DOMAIN remote.items : NormalizeRaises(remote.items[n])
         THEN "normalize_raises"
         ELSE "none"

RemoteRaises(remote) == FailureOf(remote) # "none"

scrape_instagram_posts(available, args, now, tickAt, remote, proxy) ==
    IF ~available THEN Demo("demo_unavailable", "none", args, now, tickAt)
    ELSE IF RemoteRaises(remote)
         THEN OnScrapeFailure(FailureOf(remote), args, now + 1, tickAt)
         ELSE Live(args, remote.items, now, proxy)

(***************************************************************************)
(* The calls the model makes.                                              *)
(***************************************************************************)
HashtagChoices == {<<>>, <<"#ui", "#design", "#tech", "#ai">>}
TimeFilterChoices == {"Today", "48 Hours", "4 Days", "Week", "Month", "Year"}
PostTypeChoices == {"all", "posts", "carousels", "reels"}
Nows == {0, 5}

Args(hashtagChoices, limits) ==
    [hashtags : hashtagChoices, time_filter : TimeFilterChoices,
     post_type : PostTypeChoices, limit : limits]

RawItem(id, likes, videoUrl, sidecar, ts) ==
    [id |-> id, ownerUsername |-> <<>>, displayUrl |-> <<>>, likesCount |-> likes,
     commentsCount |-> <<>>, videoViewCount |-> <<>>, caption |-> <<>>,
     videoUrl |-> videoUrl, sidecarMedias |-> sidecar, shortCode |-> <<>>,
     timestamp |-> ts]

Media == { <<"m1">>, <<"m1", "m2">> }

\* The items a result set is made of: with and without an id, of the three
\* kinds, without a timestamp, with one older than every window and with
\* one that does not parse.
ItemPool(now) ==
    { RawItem(id, <<7>>, mv[1], mv[2], ts) :
        id \in {<<>>, <<"a">>},
        mv \in { <<<<>>, <<>>>>, <<<<>>, <<<<"m1", "m2">>>>>>, <<<<"v.mp4">>, <<<<"m1", "m2">>>>>> },
        ts \in { <<>>,
                 <<[form |-> "iso_z", t |-> now - (31 * Day)]>>,
                 <<[form |-> "malformed", t |-> 0]>> } }

Remotes(now) ==
    { [stage |-> "call_raises", items |-> <<>>],
      [stage |-> "iterate_raises", items |-> <<>>] }
    \cup { [stage |-> "ok", items |-> q] :
             q \in UNION { [1..n -> ItemPool(now)] : n \in 0..MaxItems } }

FetchWith(hashtagChoices, limits, nows) ==
    /\ fetch_out.path = "none"
    /\ \E args \in Args(hashtagChoices, limits), now \in nows :
         /\ fetch_args' = args
         /\ \/ /\ ~scraping_available
               /\ \E tickAt \in 0..args.limit :
                    fetch_out' = scrape_instagram_posts(FALSE, args, now, tickAt,
                                    [stage |-> "ok", items |-> <<>>], api_keys["proxy_url"])
            \/ /\ scraping_available
               /\ \E remote \in Remotes(now) :
                    \E tickAt \in (IF RemoteRaises(remote) THEN 0..args.limit ELSE {0}) :
                       fetch_out' = scrape_instagram_posts(TRUE, args, now, tickAt,
                                       remote, api_keys["proxy_url"])
    /\ UNCHANGED <<secretVars, scraping_available, clsVars, sessVars, helperVars>>

\* Calls with few records asked for, whatever the provider does.
Fetch == FetchWith({<<"#ui", "#design", "#tech", "#ai">>}, 1..(MaxItems + 1), {5})

\* Calls with as many records asked for as it takes to wrap the 30 days.
FetchDemo == ~scraping_available /\ FetchWith(HashtagChoices, 1..MaxLimit, Nows)

\* The caller has the list; the next call can be made.
FetchReturn ==
    /\ fetch_out.path # "none"
    /\ fetch_out' = NoOut
    /\ fetch_args' = NoArgs
    /\ UNCHANGED <<secretVars, scraping_available, clsVars, sessVars, helperVars>>

InitFetchAny ==
    /\ st_secrets = [ok |-> FALSE, data |-> Empty]
    /\ environ = Empty
    /\ secrets_file = NoFile
    /\ env_file = NoFile
    /\ config_file = NoFile
    /\ api_keys \in {Empty, [Empty EXCEPT !["proxy_url"] = "X"]}
    /\ edits = 0
    /\ save_result = "none"
    /\ last_op = "none"
    /\ scraping_available \in BOOLEAN
    /\ fetch_args = NoArgs
    /\ fetch_out = NoOut
    /\ ClsIdle
    /\ SessIdle
    /\ HelperIdle

NextFetch == Fetch \/ FetchReturn

SpecFetch == InitFetchAny /\ [][NextFetch]_vars

NextDemo == FetchDemo \/ FetchReturn

InitDemo == InitFetchAny /\ ~scraping_available

SpecDemo == InitDemo /\ [][NextDemo]_vars

(***************************************************************************)
(* Claims about the retrieval service.                                     *)
(***************************************************************************)
\* What the provider-unavailable path returns for the same arguments and
\* the same readings of the clock.
UnavailableResult ==
    scrape_instagram_posts(FALSE, fetch_args, fetch_out.now, fetch_out.tickAt,
                           [stage |-> "ok", items |-> <<>>], "").posts

\* C2: when the provider is available and the job submission, the iteration
\* of the result set or the normalization of an item raises, the call
\* returns, and returns the demo list the provider-unavailable path returns
\* for the same hashtags, window, kind filter and limit.
C2_FailureFallsBackToDemo ==
    fetch_out.failure # "none" =>
        /\ fetch_out.path = "demo_after_failure"
        /\ fetch_out.posts = UnavailableResult

C2_Witness ==
    /\ scraping_available
    /\ fetch_out.failure = "normalize_raises"
    /\ fetch_out.path = "demo_after_failure"
    /\ fetch_args.time_filter = "48 Hours"
    /\ fetch_args.limit = 3
    /\ Len(fetch_out.posts) = 2

\* The days of a window as the specification gives them.
WindowDays(time_filter) ==
    IF time_filter = "Today" THEN 1
    ELSE IF time_filter = "48 Hours" THEN 2
    ELSE IF time_filter = "4 Days" THEN 4
    ELSE IF time_filter = "Week" THEN 7
    ELSE 30

\* The cutoff of a call: the clock as the call reads it for the cutoff,
\* minus the days of the window.
CutoffOf(out, time_filter) ==
    IF out.path = "live" THEN out.now - (WindowDays(time_filter) * Day)
    ELSE (out.now + 1) - (WindowDays(time_filter) * Day)

\* C3: on the demo path and on the live path alike a record is returned if
\* and only if its timestamp is at or after now - days(window), days being
\* Today 1, 48 Hours 2, 4 Days 4, Week 7, Month 30 and 30 for any other
\* window.
C3_SameCutoffOnBothPaths ==
    /\ fetch_out.path \in {"demo_unavailable", "demo_after_failure"} =>
          fetch_out.posts =
              SelectSeq(fetch_out.mock,
                        LAMBDA post : post.timestamp.t >= CutoffOf(fetch_out, fetch_args.time_filter))
    /\ fetch_out.path = "live" =>
          \A n \in DOMAIN fetch_out.posts :
              fetch_out.posts[n].timestamp.t >= CutoffOf(fetch_out, fetch_args.time_filter)

\* The demo half of C3, which the code does satisfy.
C3_DemoCutoff ==
    fetch_out.path \in {"demo_unavailable", "demo_after_failure"} =>
        /\ fetch_out.posts =
              SelectSeq(fetch_out.mock,
                        LAMBDA post : post.timestamp.t >= CutoffOf(fetch_out, fetch_args.time_filter))

\* The live path sends the same cutoff to the provider as dateFrom.
C3_LiveDateFrom ==
    fetch_out.path = "live" =>
        fetch_out.actor_input[1].dateFrom.t = CutoffOf(fetch_out, fetch_args.time_filter)

\* A live call returned a record older than the window asked for.
C3_LiveReturnsOldRecord ==
    /\ fetch_out.path = "live"
    /\ fetch_args.time_filter = "Today"
    /\ \E n \in DOMAIN fetch_out.posts :
          fetch_out.posts[n].timestamp.t < fetch_out.actor_input[1].dateFrom.t

\* C4: with the provider unavailable a call with limit n builds n records,
\* i = 0 .. n-1, record i with likes 1500 + 100 i, the kinds cycling posts,
\* carousels, reels by i mod 3 when no kind is asked for, and its timestamp
\* the clock minus (i mod 30) days; the list returned has at most n records.
C4_DemoRecords ==
    fetch_out.path = "demo_unavailable" =>
        /\ Len(fetch_out.mock) = fetch_args.limit
        /\ \A n \in DOMAIN fetch_out.mock :
              LET i == n - 1
                  post == fetch_out.mock[n]
              IN  /\ post.likes = 1500 + (100 * i)
                  /\ fetch_args.post_type = "all" =>
                        post.post_type = <<"posts", "carousels", "reels">>[(i % 3) + 1]
                  /\ \E c \in {fetch_out.now, fetch_out.now + 1} :
                        post.timestamp = Naive(c - ((i % 30) * Day))
        /\ Len(fetch_out.posts) <= fetch_args.limit

\* A call that asks for more than 30 records of any kind, where the window
\* drops some of them.
C4_Witness ==
    /\ fetch_out.path = "demo_unavailable"
    /\ fetch_args.limit > 30
    /\ fetch_args.post_type = "all"
    /\ fetch_args.time_filter = "Week"
    /\ Len(fetch_out.mock) = fetch_args.limit
    /\ Len(fetch_out.posts) < fetch_args.limit
    /\ Len(fetch_out.posts) > 7

\* C5: whichever return is taken, the list has at most limit records and,
\* when a kind is asked for, only records of that kind.
C5_LimitAndKind ==
    fetch_out.path # "none" =>
        /\ Len(fetch_out.posts) <= fetch_args.limit
        /\ fetch_args.post_type # "all" =>
              \A n \in DOMAIN fetch_out.posts :
                  fetch_out.posts[n].post_type = fetch_args.post_type

\* A live call whose result set held more records of the kind asked for
\* than the limit.
C5_Witness ==
    /\ fetch_out.path = "live"
    /\ fetch_args.post_type = "carousels"
    /\ fetch_out.raw > fetch_args.limit
    /\ Len(fetch_out.posts) = fetch_args.limit

(***************************************************************************)
(* InstagramAnalytics.__init__: the two providers.                         *)
(***************************************************************************)
\* Lines 411-420: a key, and genai.configure and GenerativeModel succeed.
AiAvailable(gemini_api_key, setup_ok) == gemini_api_key # "" /\ setup_ok

\* Lines 423-432: a token, and apify_client imports and constructs.
ScrapingAvailable(apify_token, client_ok) == apify_token # "" /\ client_ok

(***************************************************************************)
(* Content classifier, analyze_with_gemini.                                *)
(*                                                                         *)
(* The provider's answer: generate_content raises, or gives a text.  A     *)
(* text is the JSON encoding of a value, bare, inside a Markdown code      *)
(* fence or after a sentence of prose; json.loads takes the bare one only. *)
(***************************************************************************)
Categories == {"Tech", "Other", "Banana"}
Sentiments == {"Positive", "Negative"}
Predictions == {"High", "Low"}
Scores == {0, 75, 100}

JsonObjects ==
    [category : Categories, sentiment : Sentiments,
     engagement_prediction : Predictions, content_quality : Scores,
     trending_potential : {60, 90}]

Responses ==
    { [kind |-> "raises", wrap |-> "none", body |-> <<>>] }
    \cup { [kind |-> "text", wrap |-> w, body |-> <<o>>] :
             w \in {"bare", "fenced", "prose"}, o \in JsonObjects }

json_loads_raises(response) == response.wrap # "bare"

json_loads(response) == response.body[1]

\* Lines 580-586.
DefaultUnavailable ==
    [category |-> "General", sentiment |-> "Positive",
     engagement_prediction |-> "Medium", content_quality |-> 75,
     trending_potential |-> 60]

\* A plausible slip: the two literals drift apart.
DefaultOnFailureMutant ==
    [category |-> "General", sentiment |-> "Neutral",
     engagement_prediction |-> "Medium", content_quality |-> 75,
     trending_potential |-> 60]

\* Lines 608-614.
DefaultOnFailure ==
    [category |-> "General", sentiment |-> "Positive",
     engagement_prediction |-> "Medium", content_quality |-> 75,
     trending_potential |-> 60]

\* The step of the try block that raises, if one does.
ClassifyFailure(response) ==
    IF response.kind = "raises" THEN "call_raises"
    ELSE IF json_loads_raises(response) THEN "parse_raises"
    ELSE "none"

\* The prompt of lines 589-602: the caption and the hashtags it embeds.
Prompt(caption, hashtags) == <<caption, hashtags>>

analyze_with_gemini(available, caption, hashtags, response) ==
    IF ~available
    THEN [path |-> "unavailable", failure |-> "none", prompt |-> <<>>,
          result |-> <<DefaultUnavailable>>]
    ELSE IF ClassifyFailure(response) # "none"
         THEN [path |-> "failed", failure |-> ClassifyFailure(response),
               prompt |-> Prompt(caption, hashtags), result |-> <<DefaultOnFailure>>]
         ELSE [path |-> "parsed", failure |-> "none",
               prompt |-> Prompt(caption, hashtags), result |-> <<json_loads(response)>>]

Captions == { <<>>, <<"#", "a", " ", "#", "b">> }

Classify ==
    /\ classify_out.path = "none"
    /\ \E caption \in Captions, response \in Responses :
         classify_out' = analyze_with_gemini(ai_available, caption,
                                             _extract_hashtags(caption), response)
    /\ UNCHANGED <<secretVars, fetchVars, ai_available, sessVars, helperVars>>

\* The caller has the result; the next call can be made.
ClassifyReturn ==
    /\ classify_out.path # "none"
    /\ classify_out' = NoClassify
    /\ UNCHANGED <<secretVars, fetchVars, ai_available, sessVars, helperVars>>

\* An InstagramAnalytics built with or without a Gemini key, the set-up of
\* the provider working or not.
InitClassify ==
    /\ st_secrets = [ok |-> FALSE, data |-> Empty]
    /\ environ = Empty
    /\ secrets_file = NoFile
    /\ env_file = NoFile
    /\ config_file = NoFile
    /\ edits = 0
    /\ save_result = "none"
    /\ last_op = "none"
    /\ scraping_available = FALSE
    /\ fetch_args = NoArgs
    /\ fetch_out = NoOut
    /\ SessIdle
    /\ HelperIdle
    /\ classify_out = NoClassify
    /\ \E key \in {"", "X"}, setup_ok \in BOOLEAN :
         /\ api_keys = [Empty EXCEPT !["gemini_api_key"] = key]
         /\ ai_available = AiAvailable(key, setup_ok)

NextClassify == Classify \/ ClassifyReturn

SpecClassify == InitClassify /\ [][NextClassify]_vars

\* C8: without a Gemini key, and when the call to the provider fails or its
\* answer does not parse as JSON, the classifier returns (it does not raise)
\* the one default result General, Positive, Medium, 75, 60.
C8_SameDefault ==
    (classify_out.path # "none"
        /\ (get_secret("gemini_api_key") = "" \/ classify_out.failure # "none")) =>
        /\ classify_out.path \in {"unavailable", "failed"}
        /\ classify_out.result =
              << [category |-> "General", sentiment |-> "Positive",
                  engagement_prediction |-> "Medium", content_quality |-> 75,
                  trending_potential |-> 60] >>

\* The provider answered with JSON inside a code fence.
C8_Witness ==
    /\ ai_available
    /\ classify_out.failure = "parse_raises"
    /\ classify_out.path = "failed"
    /\ classify_out.result = <<DefaultUnavailable>>

(***************************************************************************)
(* Claims about save_secrets_to_file.                                      *)
(***************************************************************************)
\* C10: a save is best effort in each of the three formats: whatever the
\* file system does with the mkdir, the open or the write, the call does
\* not raise to its caller.
C10_SaveNeverRaises == save_result # "raised"

\* A save ran into an I/O error on opening the file, and raised.
C10_SaveRaised ==
    /\ last_op = "save"
    /\ save_result = "raised"

(***************************************************************************)
(* Session: bookmark_post and the sort of main.                            *)
(***************************************************************************)
Range(q) == {q[n] : n \in DOMAIN q}

\* list.remove: the first occurrence goes.
Remove(q, x) ==
    LET first == CHOOSE n \in DOMAIN q : q[n] = x /\ \A m \in 1..(n - 1) : q[m] # x
    IN  SubSeq(q, 1, first - 1) \o SubSeq(q, first + 1, Len(q))

\* A plausible slip: the id is appended whether or not it is there.
bookmark_postMutant(bm, post_id) == Append(bm, post_id)

\* Lines 616-623.
bookmark_post(bm, post_id) ==
    IF post_id \notin Range(bm) THEN Append(bm, post_id) ELSE Remove(bm, post_id)

SortChoices == {"Likes", "Comments", "Shares", "Views", "Recent"}

\* The key functions of lines 717-726.
SortKey(post, by) ==
    CASE by = "Likes" -> post.likes
      [] by = "Comments" -> post.comments
      [] by = "Shares" -> post.shares
      [] by = "Views" -> post.views
      [] by = "Recent" -> post.timestamp.t

\* Ordering a naive datetime against an aware one raises TypeError, and a
\* sort of a list that holds both has to order one against the other.
SortRaises(posts, by) ==
    /\ by = "Recent"
    /\ \E m, n \in DOMAIN posts : posts[m].timestamp.tz # posts[n].timestamp.tz

\* A plausible slip: sorted ascending and then reversed, which turns the
\* order of equal keys around.
SortDescMutant(posts, by) ==
    LET key == SubSeq([n \in DOMAIN posts |-> SortKey(posts[n], by)], 1, Len(posts))
        place == SubSeq([n \in DOMAIN posts |->
                           1 + Cardinality({m \in DOMAIN posts : key[m] > key[n]})
                             + Cardinality({m \in (n + 1)..Len(posts) : key[m] = key[n]})],
                        1, Len(posts))
    IN  [p \in DOMAIN posts |-> posts[CHOOSE n \in DOMAIN posts : place[n] = p]]

\* list.sort(key=..., reverse=True): descending, and records with equal keys
\* keep the order they had.  A record goes behind the records with a greater
\* key and behind the earlier records with its own key.
SortDesc(posts, by) ==
    LET key == SubSeq([n \in DOMAIN posts |-> SortKey(posts[n], by)], 1, Len(posts))
        place == SubSeq([n \in DOMAIN posts |->
                           1 + Cardinality({m \in DOMAIN posts : key[m] > key[n]})
                             + Cardinality({m \in 1..(n - 1) : key[m] = key[n]})],
                        1, Len(posts))
    IN  [p \in DOMAIN posts |-> posts[CHOOSE n \in DOMAIN posts : place[n] = p]]

(***************************************************************************)
(* One run of the script.  Streamlit runs the whole script once per        *)
(* interaction: with the button the user pressed (if any) reading True     *)
(* where the script reaches it, until the script ends, calls st.stop(),    *)
(* calls st.experimental_rerun() or raises.  r is the state so far, with   *)
(* r.run_end = "running" while the run goes on.                            *)
(***************************************************************************)
Click(button, id) == [button |-> button, id |-> id]
NoClick == Click("none", "")

WizardButtons ==
    {Click("save_keys", ""), Click("reload_keys", ""), Click("test_keys", "")}

Running(r) == r.run_end = "running"

\* Line 20 and InstagramAnalytics.__init__, lines 400-450.
Boot(client_ok, setup_ok) ==
    LET env1 == load_dotenv(environ, env_file)
        ak0 == load_secrets(Empty, st_secrets, env1, secrets_file, config_file)
    IN  [environ |-> env1, api_keys |-> ak0, secrets_file |-> secrets_file,
         env_file |-> env_file, config_file |-> config_file, edits |-> edits,
         save_result |-> "none", last_op |-> "init",
         scraping_available |-> ScrapingAvailable(ak0["apify_token"], client_ok),
         ai_available |-> AiAvailable(ak0["gemini_api_key"], setup_ok),
         fetch_args |-> NoArgs, fetch_out |-> NoOut,
         bookmarks |-> bookmarks, posts_data |-> posts_data,
         show_api_setup |-> show_api_setup, show_bookmarks |-> show_bookmarks,
         widgets |-> widgets, run_end |-> "running", rendered |-> {}]

\* show_setup_wizard, lines 244-363, with its three button handlers.
show_setup_wizard(r, click, sv) ==
    IF click.button = "save_keys"
    THEN LET sf == IF sv.ft = "toml"
                   THEN Written(r.secrets_file, TomlText(sv.dict), sv.io)
                   ELSE r.secrets_file
             ef == IF sv.ft = "env"
                   THEN Written(r.env_file, EnvText(sv.dict), sv.io)
                   ELSE r.env_file
             cf == IF sv.ft = "yaml"
                   THEN Written(r.config_file, YamlText(sv.dict), sv.io)
                   ELSE r.config_file
             saved == [r EXCEPT !.secrets_file = sf, !.env_file = ef, !.config_file = cf,
                                !.edits = @ + 1, !.last_op = "save",
                                !.rendered = @ \cup {Click("save_keys", "")}]
         IN  IF SaveRaises(sv.io)
             THEN [saved EXCEPT !.save_result = "raised", !.run_end = "save_raised"]
             ELSE [saved EXCEPT !.save_result = "ok",
                                !.api_keys = load_secrets(r.api_keys, st_secrets,
                                                          r.environ, sf, cf),
                                !.run_end = "rerun"]
    ELSE IF click.button = "reload_keys"
    THEN [r EXCEPT !.api_keys = load_secrets(r.api_keys, st_secrets, r.environ,
                                             r.secrets_file, r.config_file),
                   !.last_op = "reload",
                   !.run_end = "rerun"]
    ELSE [r EXCEPT !.rendered = @ \cup WizardButtons]

\* Lines 629-631: show_setup_wizard returns False, so st.stop() follows it.
Gate(r, click, sv) ==
    LET r1 == show_setup_wizard(r, click, sv)
    IN  IF Running(r1) THEN [r1 EXCEPT !.run_end = "stopped"] ELSE r1

\* Lines 642-649.
SidebarSetup(r, click, sv) ==
    LET r1 == [r EXCEPT !.show_api_setup = @ \/ click.button = "manage_keys",
                        !.rendered = @ \cup {Click("manage_keys", "")}]
        r2 == IF r1.show_api_setup THEN show_setup_wizard(r1, click, sv) ELSE r1
    IN  IF Running(r2) /\ r2.show_api_setup
        THEN IF click.button = "close_setup"
             THEN [r2 EXCEPT !.show_api_setup = FALSE, !.run_end = "rerun"]
             ELSE [r2 EXCEPT !.rendered = @ \cup {Click("close_setup", "")}]
        ELSE r2

\* A plausible slip: Refresh Data empties the bookmarks with the list.
SidebarFiltersMutant(r, click, w) ==
    [r EXCEPT !.widgets = w,
              !.posts_data = IF click.button = "refresh" THEN <<>> ELSE @,
              !.bookmarks = IF click.button = "refresh" THEN <<>> ELSE @,
              !.show_bookmarks = @ \/ click.button = "view_bookmarks",
              !.rendered = @ \cup {Click("refresh", ""), Click("view_bookmarks", "")}]

\* Lines 657-701: the filters, Refresh Data and View Bookmarks.
SidebarFilters(r, click, w) ==
    [r EXCEPT !.widgets = w,
              !.posts_data = IF click.button = "refresh" THEN <<>> ELSE @,
              !.show_bookmarks = @ \/ click.button = "view_bookmarks",
              !.rendered = @ \cup {Click("refresh", ""), Click("view_bookmarks", "")}]

\* post_type.lower() if post_type != "All" else "all"
PostTypeArg(post_type) ==
    CASE post_type = "All" -> "all"
      [] post_type = "Posts" -> "posts"
      [] post_type = "Carousels" -> "carousels"
      [] post_type = "Reels" -> "reels"

\* Lines 707-728: the button is put on the page only when posts_data is not
\* empty; an exception of the sort leaves posts_data as it was.
LoadPosts(r, click, w, fin) ==
    IF r.posts_data = <<>> \/ click.button = "load_posts"
    THEN LET args == [hashtags |-> w.hashtags, time_filter |-> w.time_filter,
                      post_type |-> PostTypeArg(w.post_type), limit |-> w.post_limit]
             out == scrape_instagram_posts(r.scraping_available, args, fin.now,
                                           fin.tickAt, fin.remote, r.api_keys["proxy_url"])
             r1 == [r EXCEPT !.fetch_args = args, !.fetch_out = out,
                             !.rendered = IF r.posts_data # <<>>
                                          THEN @ \cup {Click("load_posts", "")} ELSE @]
         IN  IF SortRaises(out.posts, r.widgets.sort_by)
             THEN [r1 EXCEPT !.run_end = "sort_raised"]
             ELSE [r1 EXCEPT !.posts_data = SortDesc(out.posts, r.widgets.sort_by)]
    ELSE [r EXCEPT !.rendered = @ \cup {Click("load_posts", "")}]

\* The first record whose id an earlier record has: its button key
\* f"view_{id}" is taken, and Streamlit raises DuplicateWidgetID there.
DupIndex(posts) ==
    LET dups == {j \in DOMAIN posts : \E i \in 1..(j - 1) : posts[i].id = posts[j].id}
    IN  IF dups = {} THEN 0 ELSE CHOOSE j \in dups : \A k \in dups : j <= k

Shown(posts) ==
    IF DupIndex(posts) = 0 THEN posts ELSE SubSeq(posts, 1, DupIndex(posts) - 1)

PostButtons(posts) ==
    UNION { {Click("view_post", posts[n].id), Click("bookmark", posts[n].id)} :
              n \in DOMAIN posts }

\* Lines 748-793: the grid of cards with the two buttons of each.  Of the
\* buttons of the grid, rendered keeps those of the first card: the ones
\* the user of the model presses.
Grid(r, click) ==
    LET shown == Shown(r.posts_data)
    IN  IF click.button = "bookmark" /\ click \in PostButtons(shown)
        THEN [r EXCEPT !.bookmarks = bookmark_post(@, click.id), !.run_end = "rerun"]
        ELSE IF DupIndex(r.posts_data) # 0
        THEN [r EXCEPT !.rendered = @ \cup PostButtons(Take(shown, 1)),
                       !.run_end = "duplicate_key"]
        ELSE [r EXCEPT !.rendered = @ \cup PostButtons(Take(shown, 1))]

\* Lines 796-813.
BookmarksPanel(r, click) ==
    IF ~r.show_bookmarks THEN r
    ELSE IF click.button = "close_bookmarks"
    THEN [r EXCEPT !.show_bookmarks = FALSE, !.run_end = "rerun"]
    ELSE [r EXCEPT !.rendered = @ \cup {Click("close_bookmarks", "")}]

\* Line 629.
GateOpens(ak) == has_required_keys(ak)

\* main, lines 625-821.
main(r0, click, sv, w, fin) ==
    IF ~GateOpens(r0.api_keys) THEN Gate(r0, click, sv)
    ELSE LET r1 == SidebarSetup(r0, click, sv)
             r2 == IF Running(r1) THEN SidebarFilters(r1, click, w) ELSE r1
             r3 == IF Running(r2) THEN LoadPosts(r2, click, w, fin) ELSE r2
             r4 == IF Running(r3) THEN Grid(r3, click) ELSE r3
             r5 == IF Running(r4) THEN BookmarksPanel(r4, click) ELSE r4
         IN  IF Running(r5) THEN [r5 EXCEPT !.run_end = "done"] ELSE r5

(***************************************************************************)
(* What the user and the outside do in a session.                          *)
(***************************************************************************)
\* st.slider("Posts to Load", 10, 100, 50): the least value.
SliderMin == 10

\* One filter changed: a change of a widget makes Streamlit run the script.
\* The user of the model changes the sort criterion, among three of the five.
WidgetChanges(w) ==
    {w} \cup {[w EXCEPT !.sort_by = by] : by \in {"Likes", "Comments", "Recent"}}

\* The buttons the user can press: those on the page.  A run that
\* st.experimental_rerun() asked for has no pressed button.  The user of the
\* model saves keys once and keeps at most MaxBookmarks bookmarks.
Clickable ==
    IF run_end = "rerun" THEN {NoClick}
    ELSE {NoClick} \cup
         {c \in rendered :
            /\ c.button = "bookmark" /\ c.id \notin Range(bookmarks)
                   => Len(bookmarks) < MaxBookmarks
            /\ c.button = "save_keys" => edits = 0}

\* What the wizard's form holds when Save Keys is pressed: the inputs as
\* prefilled, with the two required keys typed in, and the format the select
\* box starts with.
SaveInputs(click, ak) ==
    IF click.button = "save_keys"
    THEN [dict : {[ak EXCEPT !["apify_token"] = "X", !["gemini_api_key"] = "X"]},
          ft : {"toml"}, io : {"ok", "open_error"}]
    ELSE {[dict |-> ak, ft |-> "toml", io |-> "ok"]}

\* The provider's items of a session: they share their likes, one is a
\* carousel without a timestamp and the other a reel whose timestamp carries
\* an offset.
SessionItems(now) ==
    { RawItem(<<"a">>, <<7>>, <<>>, <<<<"m1", "m2">>>>, <<>>),
      RawItem(<<"b">>, <<7>>, <<"v.mp4">>, <<>>, <<[form |-> "iso_z", t |-> now - Day]>>) }

SessionRemotes(now) ==
    { [stage |-> "call_raises", items |-> <<>>] }
    \cup { [stage |-> "ok", items |-> q] :
             q \in UNION { [1..n -> SessionItems(now)] : n \in 0..2 } }

NoRemote == [stage |-> "ok", items |-> <<>>]

\* The clock and the provider, for a run that reaches scrape_instagram_posts.
FetchInputs(r0, click, w) ==
    IF GateOpens(r0.api_keys) /\ (posts_data = <<>> \/ click.button \in {"refresh", "load_posts"})
    THEN [now : {5}, tickAt : {0},
          remote : IF r0.scraping_available THEN SessionRemotes(5) ELSE {NoRemote}]
    ELSE {[now |-> 5, tickAt |-> 0, remote |-> NoRemote]}

Commit(r) ==
    /\ environ' = r.environ
    /\ secrets_file' = r.secrets_file
    /\ env_file' = r.env_file
    /\ config_file' = r.config_file
    /\ api_keys' = r.api_keys
    /\ edits' = r.edits
    /\ save_result' = r.save_result
    /\ last_op' = r.last_op
    /\ scraping_available' = r.scraping_available
    /\ ai_available' = r.ai_available
    /\ fetch_args' = r.fetch_args
    /\ fetch_out' = r.fetch_out
    /\ bookmarks' = r.bookmarks
    /\ posts_data' = r.posts_data
    /\ show_api_setup' = r.show_api_setup
    /\ show_bookmarks' = r.show_bookmarks
    /\ widgets' = r.widgets
    /\ run_end' = r.run_end
    /\ rendered' = r.rendered
    /\ UNCHANGED <<st_secrets, classify_out, helperVars>>

\* One run of the script, from line 20 to the end of main.
RunScript ==
    \E click \in Clickable, client_ok \in BOOLEAN, setup_ok \in {TRUE} :
       LET r0 == Boot(client_ok, setup_ok)
       IN  \E sv \in SaveInputs(click, r0.api_keys),
              w \in (IF click = NoClick /\ run_end \notin {"init", "rerun"}
                     THEN WidgetChanges(widgets) ELSE {widgets}) :
              \E fin \in FetchInputs(r0, click, w) :
                 Commit(main(r0, click, sv, w, fin))

\* A new session: the deployment has put nothing or both required keys in
\* the environment, and the slider stands at its least value.
Init ==
    /\ st_secrets = [ok |-> FALSE, data |-> Empty]
    /\ environ \in {Empty,
                    [Empty EXCEPT !["apify_token"] = "X", !["gemini_api_key"] = "X"]}
    /\ secrets_file = NoFile
    /\ env_file = NoFile
    /\ config_file = NoFile
    /\ api_keys = Empty
    /\ edits = 0
    /\ save_result = "none"
    /\ last_op = "none"
    /\ scraping_available = FALSE
    /\ fetch_args = NoArgs
    /\ fetch_out = NoOut
    /\ ClsIdle
    /\ HelperIdle
    /\ bookmarks = <<>>
    /\ posts_data = <<>>
    /\ show_api_setup = FALSE
    /\ show_bookmarks = FALSE
    /\ widgets = [DefaultWidgets EXCEPT !.post_limit = SliderMin]
    /\ run_end = "init"
    /\ rendered = {}

Next == RunScript

Spec == Init /\ [][Next]_vars

(***************************************************************************)
(* bookmark_post on its own: every list of bookmarks the program can hold  *)
(* (one without a repeated id) of at most MaxMarked ids.                   *)
(***************************************************************************)
MaxMarked == 4

PostIds == {"", "a", "b", "post_0", "post_9"}

ToggleBookmark ==
    /\ \E post_id \in PostIds :
         /\ post_id \notin Range(bookmarks) => Len(bookmarks) < MaxMarked
         /\ bookmarks' = bookmark_post(bookmarks, post_id)
    /\ UNCHANGED <<secretVars, fetchVars, clsVars, helperVars, posts_data, show_api_setup,
                   show_bookmarks, widgets, run_end, rendered>>

InitBookmarks ==
    /\ InitSecrets

NextBookmarks == ToggleBookmark

SpecBookmarks == InitBookmarks /\ [][NextBookmarks]_vars

\* C6: toggling an id that the bookmarks do not hold adds it, toggling one
\* they hold removes it, and toggling the same id twice leaves the set of
\* bookmarked ids as it was, for every list of bookmarks and every id.
C6_ToggleBookmark ==
    \A post_id \in PostIds :
       LET once == bookmark_post(bookmarks, post_id)
           twice == bookmark_post(once, post_id)
       IN  /\ post_id \notin Range(bookmarks)
                => Range(once) = Range(bookmarks) \cup {post_id}
           /\ post_id \in Range(bookmarks)
                => Range(once) = Range(bookmarks) \ {post_id}
           /\ Range(twice) = Range(bookmarks)

\* Toggles have filled the list with MaxMarked ids, "b" the first of them
\* and "a" the last.
C6_Witness ==
    /\ Len(bookmarks) = MaxMarked
    /\ bookmarks[1] = "b"
    /\ bookmarks[MaxMarked] = "a"

(***************************************************************************)
(* Claims about the session.                                               *)
(***************************************************************************)
\* out holds the records of posts in descending order of the key, and the
\* records of each key value in the order posts has them.
StableDescending(out, posts, by) ==
    /\ Len(out) = Len(posts)
    /\ \A m, n \in DOMAIN out : m < n => SortKey(out[m], by) >= SortKey(out[n], by)
    /\ \A k \in {SortKey(posts[n], by) : n \in DOMAIN posts} :
          SelectSeq(out, LAMBDA post : SortKey(post, by) = k)
             = SelectSeq(posts, LAMBDA post : SortKey(post, by) = k)

\* C7: in a run that retrieves a list, the sort by the selected criterion
\* ends and the Working Result List is the retrieved list in descending
\* order of the key, records with equal keys in the order they came in.
C7_SortIsStableDescendingPermutation ==
    fetch_out.path # "none"
       => /\ run_end # "sort_raised"
          /\ StableDescending(posts_data, fetch_out.posts, widgets.sort_by)

\* The same for the runs whose list the sort can order.
C7_SortedWhenComparable ==
    fetch_out.path # "none" /\ ~SortRaises(fetch_out.posts, widgets.sort_by)
       => StableDescending(posts_data, fetch_out.posts, widgets.sort_by)

\* A live list with a record whose timestamp carries an offset and one
\* without a timestamp, sorted by recency: the sort raises TypeError.
C7_SortRaised ==
    /\ run_end = "sort_raised"
    /\ fetch_out.path = "live"
    /\ widgets.sort_by = "Recent"
    /\ \E m, n \in DOMAIN fetch_out.posts :
          fetch_out.posts[m].timestamp.tz # fetch_out.posts[n].timestamp.tz

\* C9: a run of a session without the scraping credential is not stopped by
\* the missing configuration: it retrieves, and the Working Result List
\* holds demo records.
C9_MissingCredentialStillFetches ==
    run_end \in {"done", "stopped"} /\ api_keys["apify_token"] = ""
       => /\ run_end = "done"
          /\ fetch_out.path \in {"demo_unavailable", "none"}
          /\ posts_data # <<>>

\* What the program does: without the scraping credential no run gets past
\* the setup wizard, and the Working Result List stays empty.
C9_GateStops ==
    run_end # "init" /\ api_keys["apify_token"] = ""
       => /\ run_end \in {"stopped", "rerun", "save_raised"}
          /\ fetch_out.path = "none"
          /\ posts_data = <<>>

\* The run stopped at the setup wizard with nothing retrieved.
C9_Stopped ==
    /\ run_end = "stopped"
    /\ api_keys["apify_token"] = ""
    /\ fetch_out.path = "none"
    /\ posts_data = <<>>

\* A step of the session that is a press of a bookmark button of the page:
\* bookmark_post on the id of the card, then st.experimental_rerun().
IsToggleStep ==
    \E c \in rendered :
       /\ c.button = "bookmark"
       /\ bookmarks' = bookmark_post(bookmarks, c.id)
       /\ run_end' = "rerun"

\* C11: the bookmarks and the Working Result List start empty; a step that
\* changes the bookmarks is a press of a bookmark button, and it leaves the
\* Working Result List as it was; every other run (refresh, retrieval, sort,
\* panels, saving or reloading keys) leaves the bookmarks as they were.
C11_BookmarksFrame ==
    /\ bookmarks = <<>> /\ posts_data = <<>>
    /\ [][bookmarks' # bookmarks => IsToggleStep /\ posts_data' = posts_data]_vars

\* A run retrieved a list while a bookmark was held, and the bookmark is
\* still there.
C11_Witness ==
    /\ bookmarks # <<>>
    /\ fetch_out.path # "none"
    /\ run_end = "done"

(***************************************************************************)
(* Claims about the records of one retrieval.                              *)
(***************************************************************************)
DistinctIds(posts) ==
    \A m, n \in DOMAIN posts : m # n => posts[m].id # posts[n].id

\* C12: in the list a call of scrape_instagram_posts returns, live or demo,
\* no two records have the same id, also when items of the provider carry
\* no id.
C12_IdsDistinct ==
    fetch_out.path # "none" => DistinctIds(fetch_out.posts)

\* The demo half: the ids post_0, post_1, ... of a demo list are distinct.
C12_DemoIdsDistinct ==
    fetch_out.path \in {"demo_unavailable", "demo_after_failure"}
       => DistinctIds(fetch_out.posts)

\* A live list with two records made from items without an id: both have
\* the id "".
C12_TwoWithoutId ==
    /\ fetch_out.path = "live"
    /\ \E m, n \in DOMAIN fetch_out.posts :
          m # n /\ fetch_out.posts[m].id = "" /\ fetch_out.posts[n].id = ""

(***************************************************************************)
(* _determine_post_type on its own, over items whose videoUrl and          *)
(* sidecarMedias are absent, empty or filled, whatever else they carry.    *)
(***************************************************************************)
KindItems ==
    { RawItem(id, likes, videoUrl, sidecar, ts) :
        id \in {<<>>, <<"a">>},
        likes \in {<<>>, <<7>>},
        videoUrl \in {<<>>, <<"">>, <<"v.mp4">>},
        sidecar \in {<<>>, <<<<>>>>, <<<<"m1", "m2">>>>},
        ts \in {<<>>, <<[form |-> "iso_z", t |-> 0]>>} }

DeterminePostType ==
    /\ helper_out = <<>>
    /\ helper_out' = <<_determine_post_type(helper_in)>>
    /\ UNCHANGED <<secretVars, fetchVars, clsVars, sessVars, helper_in>>

InitKind ==
    /\ st_secrets = [ok |-> FALSE, data |-> Empty]
    /\ environ = Empty
    /\ secrets_file = NoFile
    /\ env_file = NoFile
    /\ config_file = NoFile
    /\ api_keys = Empty
    /\ edits = 0
    /\ save_result = "none"
    /\ last_op = "none"
    /\ scraping_available = FALSE
    /\ fetch_args = NoArgs
    /\ fetch_out = NoOut
    /\ ClsIdle
    /\ SessIdle
    /\ helper_in \in KindItems
    /\ helper_out = <<>>

NextKind == DeterminePostType

SpecKind == InitKind /\ [][NextKind]_vars

\* The item carries a video URL: the field is there and is not empty.
HasVideoUrl(item) == item.videoUrl # <<>> /\ item.videoUrl[1] # ""

\* The item carries sidecar media: the field is there and the list has members.
HasSidecar(item) == item.sidecarMedias # <<>> /\ Len(item.sidecarMedias[1]) > 0

\* C13: the kind of a raw item is reel when it carries a video URL, whatever
\* its other fields; otherwise carousel when it carries sidecar media;
\* otherwise post.
C13_PostKind ==
    helper_out # <<>>
       => /\ HasVideoUrl(helper_in) => helper_out[1] = "reels"
          /\ ~HasVideoUrl(helper_in) /\ HasSidecar(helper_in) => helper_out[1] = "carousels"
          /\ ~HasVideoUrl(helper_in) /\ ~HasSidecar(helper_in) => helper_out[1] = "posts"

\* An item with a video URL and sidecar media came out a reel.
C13_Witness ==
    /\ helper_out = <<"reels">>
    /\ HasVideoUrl(helper_in)
    /\ HasSidecar(helper_in)

(***************************************************************************)
(* _extract_hashtags on its own.  A caption is a string of characters, put *)
(* together from at most MaxPieces pieces: hashtags, a bare #, a word, a   *)
(* space, a hashtag of several word characters.                            *)
(***************************************************************************)
MaxPieces == 6

Pieces == { <<"#", "a">>, <<"#">>, <<"b">>, <<" ">>, <<"#", "1", "_">> }

RECURSIVE CaptionsOf(_)
CaptionsOf(n) ==
    IF n = 0 THEN {<<>>}
    ELSE LET shorter == CaptionsOf(n - 1)
         IN  shorter \cup {c \o p : c \in shorter, p \in Pieces}

ExtractHashtags ==
    /\ helper_out = <<>>
    /\ helper_out' = <<_extract_hashtags(helper_in)>>
    /\ UNCHANGED <<secretVars, fetchVars, clsVars, sessVars, helper_in>>

InitHashtags ==
    /\ st_secrets = [ok |-> FALSE, data |-> Empty]
    /\ environ = Empty
    /\ secrets_file = NoFile
    /\ env_file = NoFile
    /\ config_file = NoFile
    /\ api_keys = Empty
    /\ edits = 0
    /\ save_result = "none"
    /\ last_op = "none"
    /\ scraping_available = FALSE
    /\ fetch_args = NoArgs
    /\ fetch_out = NoOut
    /\ ClsIdle
    /\ SessIdle
    /\ helper_in \in CaptionsOf(MaxPieces)
    /\ helper_out = <<>>

NextHashtags == ExtractHashtags

SpecHashtags == InitHashtags /\ [][NextHashtags]_vars

\* Where the tokens of a caption start: a # with a word character after it.
\* A token cannot start inside another, # not being a word character.
TokenStarts(c) ==
    {p \in 1..(Len(c) - 1) : c[p] = "#" /\ IsWord(c[p + 1])}

\* The token that starts at p: the # and the word characters up to the
\* first character that is not one, or to the end.
TokenAt(c, p) ==
    LET stops == {e \in (p + 1)..Len(c) : ~IsWord(c[e])}
        last == IF stops = {} THEN Len(c)
                ELSE (CHOOSE e \in stops : \A f \in stops : e <= f) - 1
    IN  SubSeq(c, p, last)

\* The start of the i-th token, counted from the left.
NthStart(c, i) ==
    CHOOSE p \in TokenStarts(c) : Cardinality({q \in TokenStarts(c) : q < p}) = i - 1

\* C14: for a caption with k tokens of the form # and one or more word
\* characters, the extraction returns the first min(5, k) of them, in the
\* order of the caption, and nothing else.
C14_FirstFiveHashtags ==
    helper_out # <<>>
       => LET c == helper_in
              out == helper_out[1]
              k == Cardinality(TokenStarts(c))
          IN  /\ Len(out) = IF k < 5 THEN k ELSE 5
              /\ \A i \in 1..Len(out) : out[i] = TokenAt(c, NthStart(c, i))

\* A caption with more than five tokens, of which five came out, one of
\* them of several word characters.
C14_Witness ==
    /\ helper_out # <<>>
    /\ Cardinality(TokenStarts(helper_in)) > 5
    /\ Len(helper_out[1]) = 5
    /\ \E i \in 1..5 : Len(helper_out[1][i]) > 2

(***************************************************************************)
(* Claims about the timestamps of a live list and the order of the         *)
(* Working Result List.                                                    *)
(***************************************************************************)
\* Python orders two datetimes when both are naive or both are aware.
Comparable(posts) ==
    \A m, n \in DOMAIN posts : posts[m].timestamp.tz = posts[n].timestamp.tz

\* C15: after a live retrieval that returned without an error, the
\* timestamps of the records are mutually comparable, and the sort by
\* recency of the run does not raise.
C15_RecencySortNeverRaises ==
    fetch_out.path = "live"
       => /\ Comparable(fetch_out.posts)
          /\ widgets.sort_by = "Recent" => run_end # "sort_raised"

\* What holds: the records whose items carried no timestamp are naive, and
\* a live list of such records alone is comparable.
C15_DefaultedAreNaive ==
    fetch_out.path = "live"
       /\ (\A n \in DOMAIN fetch_out.posts : fetch_out.posts[n].timestamp.t = fetch_out.now + 1)
       => Comparable(fetch_out.posts)

\* A live retrieval gave a record stamped with the naive current time and
\* one with the aware time of the provider, and the run ended in the
\* TypeError of the sort, the Working Result List not replaced.
C15_NaiveAgainstAware ==
    /\ fetch_out.path = "live"
    /\ fetch_out.failure = "none"
    /\ \E m, n \in DOMAIN fetch_out.posts :
          /\ fetch_out.posts[m].timestamp.tz = "naive"
          /\ fetch_out.posts[n].timestamp.tz = "utc"
    /\ run_end = "sort_raised"
    /\ posts_data # fetch_out.posts

(***************************************************************************)
(* Claims about resolving again on a resolver that exists.                 *)
(***************************************************************************)
\* What a new SecretsManager would resolve from the sources as they are.
Fresh == load_secrets(Empty, st_secrets, environ, secrets_file, config_file)

\* C16: after a reload, and after the resolution that follows a save, the
\* Credential Set is the one a fresh resolution over the four sources as
\* they are now yields.
C16_ReloadIsFreshResolution ==
    last_op = "reload" \/ (last_op = "save" /\ save_result = "ok")
       => api_keys = Fresh

\* What holds: with a readable secret store the reload starts from the
\* store's values and equals the fresh resolution.
C16_ReloadWithStore ==
    (last_op = "reload" \/ (last_op = "save" /\ save_result = "ok")) /\ st_secrets.ok
       => api_keys = Fresh

\* A reload kept a value that a fresh resolution would not give: the value
\* is not the one the sources supply now.
C16_StaleValueSurvives ==
    /\ last_op = "reload"
    /\ ~st_secrets.ok
    /\ \E k \in Keys : api_keys[k] # "" /\ api_keys[k] # Fresh[k]

(***************************************************************************)
(* Claims about the order of the Working Result List between retrievals.   *)
(***************************************************************************)
Descending(posts, by) ==
    \A m, n \in DOMAIN posts : m < n => SortKey(posts[m], by) >= SortKey(posts[n], by)

\* C17: after every run that completed with a Working Result List that is
\* not empty, the list is in descending order of the criterion the Sort By
\* box shows, also when the run only changed the criterion.
C17_ListFollowsSelectedCriterion ==
    run_end = "done" /\ posts_data # <<>>
       => Descending(posts_data, widgets.sort_by)

\* What holds: the list is in the order of the criterion selected in the
\* run that retrieved it.
C17_SortedAtRetrieval ==
    run_end = "done" /\ posts_data # <<>> /\ fetch_out.path # "none"
       => Descending(posts_data, widgets.sort_by)

\* A run without a retrieval completed, and the list, whose timestamps
\* Python can order, is not in the order of the selected criterion.
C17_OrderOfEarlierCriterion ==
    /\ run_end = "done"
    /\ fetch_out.path = "none"
    /\ posts_data # <<>>
    /\ Comparable(posts_data)
    /\ ~Descending(posts_data, widgets.sort_by)

====
